---- MODULE Spec2Model ----
(***************************************************************************)
(* Secret retrieval gateway of pkg/api/universal/secrets.go:                *)
(* Universal.GetSecret, Universal.GetBulkSecret, secretsValidateRequest     *)
(* and isSecretAllowed, with the component store, the scope evaluator, the  *)
(* resiliency runner and the secret-store backend as collaborators.         *)
(***************************************************************************)
EXTENDS Integers, Sequences, FiniteSets, TLC

VARIABLES secretStores, secretsConfiguration, req, log, shadowLog, telemetry

vars == <<secretStores, secretsConfiguration, req, log, shadowLog, telemetry>>

\* ------------------------------------------------------------------ bounds
\* Retries the resiliency policy grants after the first attempt.
MaxRetries == 2
\* Policy timeout of one attempt, in clock ticks.
Timeout == 2
\* How much longer than the timeout a backend call may take.
MaxOverrun == 1

MaxLatency == Timeout + MaxOverrun
\* Retries the policy grants to each of the calls that run concurrently.
ConcRetries == 0

\* ------------------------------------------------------------------ domains
StoreNames == {"store1", "store2"}
Keys == {"good-key", "not-allowed"}
Values == {"life is good", "denied value"}
ErrMsgs == {"backend failure"}
TimeoutMsg == "context deadline exceeded"

AllowAccess == "allow"
DenyAccess == "deny"

\* Reasons of IsSecretAllowedWithReason, as the tests expect them in the log.
DeniedListMatch == "Key is in DeniedSecrets list"
NotInAllowedList == "Key is not in AllowedSecrets list and AllowedSecrets is configured"
AllowedListMatch == "Key is in AllowedSecrets list"
DefaultDeny == "DefaultAccess is set to 'deny' and key is not in AllowedSecrets"
DefaultAllow == "DefaultAccess is set to 'allow' and key is not in DeniedSecrets"

Reasons == {DeniedListMatch, NotInAllowedList, AllowedListMatch, DefaultDeny, DefaultAllow}

\* config.SecretsScope values; a store without one maps to the empty set.
SecretsScope == [DefaultAccess : {AllowAccess, DenyAccess},
                 AllowedSecrets : SUBSET Keys,
                 DeniedSecrets : SUBSET Keys]

\* A Go map: nil, or a (possibly empty) mapping.
EmptyMap == [k \in {} |-> "life is good"]
NilMap == [isNil |-> TRUE, m |-> EmptyMap]
MakeMap(f) == [isNil |-> FALSE, m |-> f]
BulkData == {NilMap} \cup {MakeMap(f) : f \in UNION {[K -> Values] : K \in SUBSET Keys}}

\* Errors of pkg/messages, with the arguments they are formatted with.
NoErr == [code |-> "", args |-> <<>>]
ErrSecretStoreNotConfigured == [code |-> "ERR_SECRET_STORES_NOT_CONFIGURED", args |-> <<>>]
ErrSecretStoreNotFound(store) == [code |-> "ERR_SECRET_STORE_NOT_FOUND", args |-> <<store>>]
ErrSecretPermissionDenied(key, store) == [code |-> "ERR_PERMISSION_DENIED", args |-> <<key, store>>]
ErrSecretGet(key, store, msg) == [code |-> "ERR_SECRET_GET", args |-> <<key, store, msg>>]
ErrBulkSecretGet(store, msg) == [code |-> "ERR_SECRET_GET_BULK", args |-> <<store, msg>>]

NilResponse == [present |-> FALSE, Data |-> EmptyMap]
Response(data) == [present |-> TRUE, Data |-> data]

\* ------------------------------------------------------------------ logger
\* One record per logger call: the level, the format and the arguments.
Event(level, msg, store, key, reason, defaultAccess, allowed, denied, reasons, keys, detail) ==
    [level |-> level, msg |-> msg, store |-> store, key |-> key, reason |-> reason,
     defaultAccess |-> defaultAccess, allowed |-> allowed, denied |-> denied,
     reasons |-> reasons, keys |-> keys, detail |-> detail]

\* a.logger.Debug(err) of an error of pkg/messages.
ErrEvent(e, store, key, detail) ==
    Event("debug", e.code, store, key, "", "", {}, {}, <<>>, <<>>, detail)

\* ------------------------------------------------------------------ component store
SecretStoresLen == Cardinality(secretStores)

GetSecretStore(name) == name \in secretStores

\* <<config, ok>> of compStore.GetSecretsConfiguration.
HasSecretsConfiguration(store) == secretsConfiguration[store] # {}

GetSecretsConfiguration(store) == CHOOSE c \in secretsConfiguration[store] : TRUE

\* ------------------------------------------------------------------ scope evaluator
\* config.SecretsScope.IsSecretAllowedWithReason: first matching rule wins.
IsSecretAllowedWithReason(config, key) ==
    IF key \in config.DeniedSecrets
    THEN [allowed |-> FALSE, reason |-> DeniedListMatch]
    ELSE IF config.AllowedSecrets # {}
    THEN IF key \in config.AllowedSecrets
         THEN [allowed |-> TRUE, reason |-> AllowedListMatch]
         ELSE [allowed |-> FALSE, reason |-> NotInAllowedList]
    ELSE IF config.DefaultAccess = DenyAccess
    THEN [allowed |-> FALSE, reason |-> DefaultDeny]
    ELSE [allowed |-> TRUE, reason |-> DefaultAllow]

\* "Secret access denied. Key: %s, Store: %s, Reason: %s, DefaultAccess: %s,
\* AllowedSecrets: %v, DeniedSecrets: %v"
SecretAccessDenied(store, key, reason, config) ==
    Event("info", "Secret access denied", store, key, reason, config.DefaultAccess,
          config.AllowedSecrets, config.DeniedSecrets, <<>>, <<>>, "")

\* isSecretAllowed with the default for a store without configuration inverted.
isSecretAllowed_NoConfigDenies(storeName, key) ==
    IF HasSecretsConfiguration(storeName)
    THEN LET config == GetSecretsConfiguration(storeName)
             d == IsSecretAllowedWithReason(config, key)
         IN  [allowed |-> d.allowed,
              events |-> IF ~d.allowed
                         THEN <<SecretAccessDenied(storeName, key, d.reason, config)>>
                         ELSE <<>>]
    ELSE [allowed |-> FALSE,
          events |-> <<Event("debug", "No secret scoping configuration found", storeName, key,
                             "", "", {}, {}, <<>>, <<>>, "")>>]

\* Universal.isSecretAllowed: the decision and the events it logs.
isSecretAllowed(storeName, key) ==
    IF HasSecretsConfiguration(storeName)
    THEN LET config == GetSecretsConfiguration(storeName)
             d == IsSecretAllowedWithReason(config, key)
         IN  [allowed |-> d.allowed,
              events |-> IF ~d.allowed
                         THEN <<SecretAccessDenied(storeName, key, d.reason, config)>>
                         ELSE <<>>]
    ELSE [allowed |-> TRUE,
          events |-> <<Event("debug", "No secret scoping configuration found", storeName, key,
                             "", "", {}, {}, <<>>, <<>>, "")>>]

\* secretsValidateRequest with the name lookup before the count check.
secretsValidateRequest_LookupFirst(componentName) ==
    IF ~GetSecretStore(componentName)
    THEN [err |-> ErrSecretStoreNotFound(componentName),
          events |-> <<ErrEvent(ErrSecretStoreNotFound(componentName), componentName, "", "")>>]
    ELSE IF SecretStoresLen = 0
    THEN [err |-> ErrSecretStoreNotConfigured,
          events |-> <<ErrEvent(ErrSecretStoreNotConfigured, "", "", "")>>]
    ELSE [err |-> NoErr, events |-> <<>>]

\* Universal.secretsValidateRequest: the error and the event it logs.
secretsValidateRequest(componentName) ==
    IF SecretStoresLen = 0
    THEN [err |-> ErrSecretStoreNotConfigured,
          events |-> <<ErrEvent(ErrSecretStoreNotConfigured, "", "", "")>>]
    ELSE IF ~GetSecretStore(componentName)
    THEN [err |-> ErrSecretStoreNotFound(componentName),
          events |-> <<ErrEvent(ErrSecretStoreNotFound(componentName), componentName, "", "")>>]
    ELSE [err |-> NoErr, events |-> <<>>]

\* ------------------------------------------------------------------ requests
GetKind == "GetSecret"
BulkKind == "GetBulkSecret"

\* The locals of one call of GetSecret or GetBulkSecret, and what it has done so far.
InitReq ==
    [pc |-> "idle", kind |-> "", storeName |-> "", key |-> "",
     err |-> NoErr, response |-> NilResponse,
     getResponse |-> NilMap, shadowResponse |-> NilMap, rErr |-> "",
     retries |-> MaxRetries, runs |-> 0, calls |-> 0, fails |-> 0, timeouts |-> 0, timedOut |-> FALSE,
     clock |-> 0, start |-> 0, backendEnd |-> 0, returnedAt |-> 0,
     remaining |-> {}, filteredSecrets |-> EmptyMap,
     deniedSecrets |-> <<>>, deniedSecretReasons |-> <<>>,
     decisions |-> {}]

Reqs == DOMAIN req

InitOn(R) ==
    /\ secretStores \in SUBSET StoreNames
    /\ secretsConfiguration \in
         {f \in [StoreNames -> {{}} \cup {{c} : c \in SecretsScope}] :
            Cardinality({s \in StoreNames : f[s] # {}}) <= 1}
    /\ req = [r \in R |-> InitReq]
    /\ log = [r \in R |-> <<>>]
    /\ shadowLog = [r \in R |-> <<>>]
    /\ telemetry = [r \in R |-> <<>>]

Init == InitOn({1})

\* Two calls in flight at once, against the registry of TestGetBulkSecret: one
\* registered store whose scope denies one key, each call under a policy of
\* ConcRetries retries.
InitConc ==
    /\ secretStores = {"store1"}
    /\ secretsConfiguration =
         [s \in StoreNames |->
            IF s = "store1"
            THEN {[DefaultAccess |-> AllowAccess, AllowedSecrets |-> {},
                   DeniedSecrets |-> {"not-allowed"}]}
            ELSE {}]
    /\ req = [r \in {1, 2} |-> [InitReq EXCEPT !.retries = ConcRetries]]
    /\ log = [r \in {1, 2} |-> <<>>]
    /\ shadowLog = [r \in {1, 2} |-> <<>>]
    /\ telemetry = [r \in {1, 2} |-> <<>>]

\* What every step leaves alone: the registry and the scope configurations.
Registry == <<secretStores, secretsConfiguration>>

Emit(r, events, shadowEvents) ==
    /\ log' = [log EXCEPT ![r] = @ \o events]
    /\ shadowLog' = [shadowLog EXCEPT ![r] = @ \o shadowEvents]

\* A caller invokes GetSecret(storeName, key) or GetBulkSecret(storeName).
Call(r) ==
    /\ req[r].pc = "idle"
    /\ \E kind \in {GetKind, BulkKind}, storeName \in StoreNames, key \in Keys :
         /\ kind = BulkKind => key = CHOOSE k \in Keys : TRUE
         /\ req' = [req EXCEPT ![r].pc = "validate", ![r].kind = kind,
                               ![r].storeName = storeName,
                               ![r].key = IF kind = GetKind THEN key ELSE ""]
    /\ UNCHANGED <<Registry, log, shadowLog, telemetry>>

\* A gateway that decides access up front, before the backend is asked, in both calls.
AfterValidate_AccessFirst(kind) == "access"

\* What follows a resolved store: GetSecret decides access, GetBulkSecret fetches.
AfterValidate(kind) == IF kind = GetKind THEN "access" ELSE "invoke"

\* component, err := a.secretsValidateRequest(in.GetStoreName()), and the early return.
Validate(r) ==
    /\ req[r].pc = "validate"
    /\ LET v == secretsValidateRequest(req[r].storeName) IN
         /\ req' = [req EXCEPT ![r].err = v.err,
                               ![r].pc = IF v.err # NoErr THEN "done"
                                         ELSE AfterValidate(req[r].kind)]
         /\ Emit(r, v.events, v.events)
    /\ UNCHANGED <<Registry, telemetry>>

\* The second event GetSecret logs on a denial, after the one of isSecretAllowed.
GetSecretDeniedEvents(storeName, key) ==
    IF HasSecretsConfiguration(storeName)
    THEN LET config == GetSecretsConfiguration(storeName)
             reason == IsSecretAllowedWithReason(config, key).reason
         IN  <<SecretAccessDenied(storeName, key, reason, config)>>
    ELSE <<Event("info", "Secret access denied, no scoping configuration", storeName, key,
                 "", "", {}, {}, <<>>, <<>>, "")>>

\* A denial branch that falls through to the fetch instead of returning.
AfterAccess_FallsThrough(allowed) == "invoke"

\* What follows the access decision of GetSecret: the fetch, or the early return.
AfterAccess(allowed) == IF allowed THEN "invoke" ELSE "done"

\* GetSecret: if !a.isSecretAllowed(...) { ...; return response, err }.
CheckAccess(r) ==
    /\ req[r].pc = "access"
    /\ LET storeName == req[r].storeName
           key == req[r].key
           a == isSecretAllowed(storeName, key)
           events == IF a.allowed THEN a.events
                     ELSE a.events \o GetSecretDeniedEvents(storeName, key)
       IN  /\ req' = [req EXCEPT ![r].decisions = @ \cup {<<key, a.allowed>>},
                                 ![r].err = IF a.allowed THEN NoErr
                                            ELSE ErrSecretPermissionDenied(key, storeName),
                                 ![r].pc = AfterAccess(a.allowed)]
           /\ Emit(r, events, events)
    /\ UNCHANGED <<Registry, telemetry>>

\* start := time.Now(); policyRunner := resiliency.NewRunner(...); policyRunner(func ...).
InvokeRunner(r) ==
    /\ req[r].pc = "invoke"
    /\ req' = [req EXCEPT ![r].pc = "running", ![r].runs = @ + 1,
                          ![r].start = req[r].clock]
    /\ UNCHANGED <<Registry, log, shadowLog, telemetry>>

\* What a backend can answer: GetSecret a map holding the key, BulkGetSecret any map.
BackendData(r) ==
    IF req[r].kind = GetKind
    THEN {MakeMap([k \in {req[r].key} |-> v]) : v \in Values}
    ELSE BulkData

\* The same answer of the backend with every secret value replaced by another one.
OtherValue(v) == CHOOSE w \in Values : w # v

Shadow(data) ==
    IF data.isNil THEN NilMap ELSE MakeMap([k \in DOMAIN data.m |-> OtherValue(data.m[k])])

\* One attempt of the resiliency runner: it calls the closure (component.GetSecret or
\* component.BulkGetSecret) under the policy's timeout, and retries a failed attempt
\* while the policy has retries left.
Attempt(r, latency, ok, msg, data) ==
    LET q == req[r]
        timedOut == latency > Timeout
        success == ok /\ ~timedOut
        last == q.calls >= q.retries
    IN  req' = [req EXCEPT
                  ![r].calls = @ + 1,
                  ![r].fails = IF success THEN @ ELSE @ + 1,
                  ![r].timeouts = IF timedOut THEN @ + 1 ELSE @,
                  ![r].timedOut = timedOut,
                  ![r].backendEnd = q.clock + latency,
                  ![r].clock = IF timedOut THEN @ + Timeout ELSE @ + latency,
                  ![r].getResponse = IF success THEN data ELSE NilMap,
                  ![r].shadowResponse = IF success THEN Shadow(data) ELSE NilMap,
                  ![r].rErr = IF success THEN ""
                              ELSE IF ~last THEN ""
                              ELSE IF timedOut THEN TimeoutMsg ELSE msg,
                  ![r].pc = IF success \/ last THEN "returned" ELSE "running"]

RunnerAttempt(r) ==
    /\ req[r].pc = "running"
    /\ \/ \E latency \in 1..Timeout, data \in BackendData(r) :
            Attempt(r, latency, TRUE, "", data)
       \/ \E latency \in 1..Timeout, msg \in ErrMsgs :
            Attempt(r, latency, FALSE, msg, NilMap)
       \/ \E latency \in (Timeout + 1)..MaxLatency :
            Attempt(r, latency, FALSE, "", NilMap)
    /\ UNCHANGED <<Registry, log, shadowLog, telemetry>>

\* Telemetry recorded only when the runner returned no error.
SecretInvoked_OnlyOnSuccess(r, op) ==
    telemetry' = [telemetry EXCEPT ![r] =
                    IF req[r].rErr # "" THEN @
                    ELSE Append(@, [store |-> req[r].storeName, op |-> op,
                                    success |-> TRUE,
                                    elapsed |-> req[r].clock - req[r].start])]

\* diag.DefaultComponentMonitoring.SecretInvoked(ctx, store, op, err == nil, elapsed).
SecretInvoked(r, op) ==
    telemetry' = [telemetry EXCEPT ![r] =
                    Append(@, [store |-> req[r].storeName, op |-> op,
                               success |-> req[r].rErr = "",
                               elapsed |-> req[r].clock - req[r].start])]

\* The failure test taken from an attempt that failed instead of from the runner's result.
RunnerFailed_AnyAttempt(q) == q.fails > 0

\* if err != nil, on the error the runner returned.
RunnerFailed(q) == q.rErr # ""

\* A gateway that waits for the abandoned backend call before it returns.
ReturnTime_WaitsForBackend(q) == IF q.backendEnd > q.clock THEN q.backendEnd ELSE q.clock

\* When the call returns to its caller: as soon as the runner has returned.
ReturnTime(q) == q.clock

\* A gateway that runs the runner a second time after it has failed.
AfterFailure_RetriesOnce(q) == IF q.runs < 2 THEN "invoke" ELSE "done"

\* Where the call goes after the runner has failed: return response, err.
AfterFailure(q) == "done"

\* A gateway that keeps the runner's result in a field all calls share: a call
\* reads what another call of the same kind has stored there.
ResultOf_Shared(r) ==
    LET others == {o \in Reqs \ {r} : /\ req[o].kind = req[r].kind
                                      /\ req[o].pc \in {"returned", "filter", "done"}
                                      /\ req[o].rErr = ""}
    IN  IF others = {} THEN req[r].getResponse
        ELSE req[CHOOSE o \in others : TRUE].getResponse

\* getResponse, the local variable that holds what the runner returned to this call.
ResultOf(r) == req[r].getResponse

\* The event of a.logger.Debug(err) after a failed fetch; data is what the closure returned.
FetchFailedEvents(e, storeName, key, msg, data) ==
    <<ErrEvent(e, storeName, key, msg)>>

\* GetSecret after the runner has returned: telemetry, error mapping, response.
GetSecretFinish(r) ==
    /\ req[r].pc = "returned"
    /\ req[r].kind = GetKind
    /\ LET q == req[r]
           e == ErrSecretGet(q.key, q.storeName, q.rErr)
       IN  /\ SecretInvoked(r, "Get")
           /\ IF RunnerFailed(q)
              THEN /\ req' = [req EXCEPT ![r].err = e, ![r].pc = AfterFailure(q),
                                         ![r].returnedAt = ReturnTime(q)]
                   /\ Emit(r, FetchFailedEvents(e, q.storeName, q.key, q.rErr, q.getResponse),
                           FetchFailedEvents(e, q.storeName, q.key, q.rErr, q.shadowResponse))
              ELSE /\ req' = [req EXCEPT ![r].response = Response(ResultOf(r).m),
                                         ![r].pc = "done", ![r].returnedAt = ReturnTime(q)]
                   /\ Emit(r, <<>>, <<>>)
    /\ UNCHANGED Registry

\* GetBulkSecret after the runner has returned: telemetry, error mapping, and the
\* start of the loop over getResponse.Data.
BulkAfterRunner(r) ==
    /\ req[r].pc = "returned"
    /\ req[r].kind = BulkKind
    /\ LET q == req[r]
           e == ErrBulkSecretGet(q.storeName, q.rErr)
       IN  /\ SecretInvoked(r, "BulkGet")
           /\ IF RunnerFailed(q)
              THEN /\ req' = [req EXCEPT ![r].err = e, ![r].pc = AfterFailure(q),
                                         ![r].returnedAt = ReturnTime(q)]
                   /\ Emit(r, FetchFailedEvents(e, q.storeName, "", q.rErr, q.getResponse),
                           FetchFailedEvents(e, q.storeName, "", q.rErr, q.shadowResponse))
              ELSE /\ req' = [req EXCEPT ![r].filteredSecrets = EmptyMap,
                                         ![r].deniedSecrets = <<>>,
                                         ![r].deniedSecretReasons = <<>>,
                                         ![r].remaining = DOMAIN q.getResponse.m,
                                         ![r].pc = "filter"]
                   /\ Emit(r, <<>>, <<>>)
    /\ UNCHANGED Registry

\* f with key mapped to v (filteredSecrets[key] = v).
MapPut(f, key, v) == [k \in DOMAIN f \cup {key} |-> IF k = key THEN v ELSE f[k]]

\* The per-key event with the denied secret's value in it.
DeniedKeyEvents_LogsValue(storeName, key, v, allowedEvents) ==
    allowedEvents \o <<ErrEvent(ErrSecretPermissionDenied(key, storeName), storeName, key, v)>>

\* The events of one denied key of the loop: the ones of isSecretAllowed, then
\* a.logger.Debugf(ErrSecretPermissionDenied...); v is the key's value, in scope there.
DeniedKeyEvents(storeName, key, v, allowedEvents) ==
    allowedEvents \o <<ErrEvent(ErrSecretPermissionDenied(key, storeName), storeName, key, "")>>

\* deniedSecretReasons after one denied key: appended to only when a configuration exists.
DeniedReasons(reasons, storeName, key) ==
    IF HasSecretsConfiguration(storeName)
    THEN Append(reasons,
                <<key, IsSecretAllowedWithReason(GetSecretsConfiguration(storeName), key).reason>>)
    ELSE reasons

\* One iteration of: for key, v := range getResponse.Data { ... }, in any order.
FilterKey(r) ==
    /\ req[r].pc = "filter"
    /\ \E key \in req[r].remaining :
         LET q == req[r]
             v == q.getResponse.m[key]
             a == isSecretAllowed(q.storeName, key)
         IN  /\ req' = [req EXCEPT
                          ![r].remaining = @ \ {key},
                          ![r].decisions = @ \cup {<<key, a.allowed>>},
                          ![r].filteredSecrets = IF a.allowed THEN MapPut(@, key, v) ELSE @,
                          ![r].deniedSecrets = IF a.allowed THEN @ ELSE Append(@, key),
                          ![r].deniedSecretReasons =
                              IF a.allowed THEN @ ELSE DeniedReasons(@, q.storeName, key)]
             /\ IF a.allowed
                THEN Emit(r, a.events, a.events)
                ELSE Emit(r, DeniedKeyEvents(q.storeName, key, v, a.events),
                          DeniedKeyEvents(q.storeName, key, q.shadowResponse.m[key], a.events))
    /\ UNCHANGED <<Registry, telemetry>>

\* The aggregate event logged once per denied key instead of once per call.
SomeSecretsDenied_PerKey(storeName, deniedSecrets, deniedSecretReasons) ==
    IF HasSecretsConfiguration(storeName)
    THEN [i \in 1..Len(deniedSecretReasons) |->
            Event("info", "Some secrets were denied access", storeName, "", "",
                  GetSecretsConfiguration(storeName).DefaultAccess, {}, {},
                  <<deniedSecretReasons[i]>>, <<>>, "")]
    ELSE [i \in 1..Len(deniedSecrets) |->
            Event("info", "Some secrets were denied access, no scoping configuration",
                  storeName, "", "", "", {}, {}, <<>>, <<deniedSecrets[i]>>, "")]

\* The aggregate event after the loop: if len(deniedSecrets) > 0 { ... }.
SomeSecretsDenied(storeName, deniedSecrets, deniedSecretReasons) ==
    IF Len(deniedSecrets) = 0 THEN <<>>
    ELSE IF HasSecretsConfiguration(storeName)
    THEN <<Event("info", "Some secrets were denied access", storeName, "", "",
                 GetSecretsConfiguration(storeName).DefaultAccess, {}, {},
                 deniedSecretReasons, <<>>, "")>>
    ELSE <<Event("info", "Some secrets were denied access, no scoping configuration",
                 storeName, "", "", "", {}, {}, <<>>, deniedSecrets, "")>>

\* The response built from the backend's data instead of from filteredSecrets.
BulkResponse_Unfiltered(getResponse, filteredSecrets) ==
    IF ~getResponse.isNil
    THEN Response([k \in DOMAIN getResponse.m |-> [Secrets |-> getResponse.m[k]]])
    ELSE NilResponse

\* The response left nil when nothing passed the filter.
BulkResponse_NilWhenEmpty(getResponse, filteredSecrets) ==
    IF DOMAIN filteredSecrets # {}
    THEN Response([k \in DOMAIN filteredSecrets |-> [Secrets |-> filteredSecrets[k]]])
    ELSE NilResponse

\* The response of GetBulkSecret: if getResponse.Data != nil { response = ... }.
BulkResponse(getResponse, filteredSecrets) ==
    IF ~getResponse.isNil
    THEN Response([k \in DOMAIN filteredSecrets |-> [Secrets |-> filteredSecrets[k]]])
    ELSE NilResponse

\* GetBulkSecret after the loop: the aggregate event and the response.
BulkFinish(r) ==
    /\ req[r].pc = "filter"
    /\ req[r].remaining = {}
    /\ LET q == req[r]
           events == SomeSecretsDenied(q.storeName, q.deniedSecrets, q.deniedSecretReasons)
       IN  /\ req' = [req EXCEPT ![r].response = BulkResponse(q.getResponse, q.filteredSecrets),
                                 ![r].pc = "done", ![r].returnedAt = ReturnTime(q)]
           /\ Emit(r, events, events)
    /\ UNCHANGED <<Registry, telemetry>>

Next ==
    \/ \E r \in Reqs : Call(r)
    \/ \E r \in Reqs : Validate(r)
    \/ \E r \in Reqs : CheckAccess(r)
    \/ \E r \in Reqs : InvokeRunner(r)
    \/ \E r \in Reqs : RunnerAttempt(r)
    \/ \E r \in Reqs : GetSecretFinish(r)
    \/ \E r \in Reqs : BulkAfterRunner(r)
    \/ \E r \in Reqs : FilterKey(r)
    \/ \E r \in Reqs : BulkFinish(r)

Spec == Init /\ [][Next]_vars

SpecConc == InitConc /\ [][Next]_vars

\* ------------------------------------------------------------------ properties
Done(r) == req[r].pc = "done"

\* The scope configuration registered for the store of request r: {} or {config}.
ScopeOf(r) ==
    IF req[r].storeName \in StoreNames THEN secretsConfiguration[req[r].storeName] ELSE {}

\* The positions of the events of request r with the given format.
EventsOf(r, msg) == {i \in 1..Len(log[r]) : log[r][i].msg = msg}

\* C1: every decision isSecretAllowed has returned, and every reason it has logged,
\* is the one of the first matching rule: no configuration allows; a key of
\* DeniedSecrets is denied (DeniedListMatch) whatever else holds; otherwise a
\* non-empty AllowedSecrets allows exactly its keys (AllowedListMatch,
\* NotInAllowedList); otherwise DefaultAccess decides (DefaultAllow, DefaultDeny).
C1_DecisionPrecedence ==
    \A r \in Reqs :
      /\ \A d \in req[r].decisions :
           LET key == d[1]
               allowed == d[2]
           IN  /\ ScopeOf(r) = {} => allowed
               /\ \A c \in ScopeOf(r) :
                    /\ key \in c.DeniedSecrets => ~allowed
                    /\ key \notin c.DeniedSecrets /\ c.AllowedSecrets # {}
                         => (allowed <=> key \in c.AllowedSecrets)
                    /\ key \notin c.DeniedSecrets /\ c.AllowedSecrets = {}
                         => (allowed <=> c.DefaultAccess = AllowAccess)
      /\ \A i \in EventsOf(r, "Secret access denied") : \A c \in ScopeOf(r) :
           LET e == log[r][i] IN
             /\ e.reason = DeniedListMatch <=> e.key \in c.DeniedSecrets
             /\ e.reason = NotInAllowedList
                  <=> e.key \notin c.DeniedSecrets /\ c.AllowedSecrets # {}
             /\ e.reason = DefaultDeny
                  <=> e.key \notin c.DeniedSecrets /\ c.AllowedSecrets = {}
      /\ \A c \in ScopeOf(r) : \A key \in Keys :
           LET d == IsSecretAllowedWithReason(c, key) IN
             d.allowed => d.reason = IF c.AllowedSecrets # {} THEN AllowedListMatch
                                     ELSE DefaultAllow

\* C1 witness: a key that is in AllowedSecrets and in DeniedSecrets, under
\* DefaultAccess allow, has been decided, and was denied.
C1_Witness ==
    \E r \in Reqs : \E c \in ScopeOf(r) : \E d \in req[r].decisions :
      /\ d[1] \in c.AllowedSecrets \cap c.DeniedSecrets
      /\ c.DefaultAccess = AllowAccess
      /\ ~d[2]

\* C2: the data of a successful GetBulkSecret response has exactly the keys of the
\* backend result that isSecretAllowed allows, each with the backend's value.
C2_BulkResponseIsAllowedSubset ==
    \A r \in Reqs :
      Done(r) /\ req[r].kind = BulkKind /\ req[r].err = NoErr =>
        LET data == req[r].getResponse.m
            out == req[r].response.Data
        IN  /\ DOMAIN out = {k \in DOMAIN data : isSecretAllowed(req[r].storeName, k).allowed}
            /\ \A k \in DOMAIN out : out[k].Secrets = data[k]

\* C2 witness: the backend returned an allowed and a denied key, and the call is over.
C2_Witness ==
    \E r \in Reqs :
      /\ Done(r) /\ req[r].kind = BulkKind /\ req[r].err = NoErr
      /\ \E k1, k2 \in DOMAIN req[r].getResponse.m :
           /\ isSecretAllowed(req[r].storeName, k1).allowed
           /\ ~isSecretAllowed(req[r].storeName, k2).allowed
           /\ k1 \in DOMAIN req[r].response.Data

\* C3: a GetSecret call whose key is denied fails with PermissionDenied(key, store)
\* and has emitted exactly one "Secret access denied" event, which carries the
\* store, the key, the reason and the scope configuration.
C3_OneDenialEvent ==
    \A r \in Reqs :
      Done(r) /\ req[r].kind = GetKind /\ <<req[r].key, FALSE>> \in req[r].decisions =>
        /\ req[r].err = ErrSecretPermissionDenied(req[r].key, req[r].storeName)
        /\ Cardinality(EventsOf(r, "Secret access denied")) = 1
        /\ \A i \in EventsOf(r, "Secret access denied") : \A c \in ScopeOf(r) :
             log[r][i] = SecretAccessDenied(req[r].storeName, req[r].key,
                                            IsSecretAllowedWithReason(c, req[r].key).reason, c)

\* C4: a call fails with NoStoresConfigured exactly when the registry is empty, and
\* with StoreNotFound(storeName) exactly when the registry is not empty and holds
\* no store of that name.
C4_StoreResolution ==
    \A r \in Reqs :
      req[r].pc \notin {"idle", "validate"} =>
        /\ req[r].err = ErrSecretStoreNotConfigured <=> secretStores = {}
        /\ req[r].err = ErrSecretStoreNotFound(req[r].storeName)
             <=> secretStores # {} /\ req[r].storeName \notin secretStores

\* C4 witness: a bulk call for a name the non-empty registry does not hold has failed.
C4_Witness ==
    \E r \in Reqs :
      /\ Done(r) /\ req[r].kind = BulkKind
      /\ secretStores # {} /\ req[r].storeName \notin secretStores
      /\ req[r].err = ErrSecretStoreNotFound(req[r].storeName)

\* Every string and every key an event carries.
EventStrings(e) ==
    {e.store, e.key, e.reason, e.defaultAccess, e.detail}
      \cup e.allowed \cup e.denied
      \cup {e.reasons[i][1] : i \in 1..Len(e.reasons)}
      \cup {e.reasons[i][2] : i \in 1..Len(e.reasons)}
      \cup {e.keys[i] : i \in 1..Len(e.keys)}

\* The event is made of store names, keys, decision reasons and the scope
\* configuration the decision was taken under, and of nothing else.
FromStoresKeysReasons(e) ==
    /\ e.store \in StoreNames \cup {""}
    /\ e.key \in Keys \cup {""}
    /\ e.reason \in Reasons \cup {""}
    /\ e.defaultAccess \in {AllowAccess, DenyAccess, ""}
    /\ e.allowed \subseteq Keys /\ e.denied \subseteq Keys
    /\ \A i \in 1..Len(e.reasons) : e.reasons[i][1] \in Keys /\ e.reasons[i][2] \in Reasons
    /\ \A i \in 1..Len(e.keys) : e.keys[i] \in Keys

\* C5 as stated: no event holds a secret value, every event is made only of store
\* names, keys and decision reasons, and the run with other secret values has
\* emitted the same events.
C5_OnlyStoresKeysReasons ==
    \A r \in Reqs :
      /\ \A i \in 1..Len(log[r]) :
           /\ EventStrings(log[r][i]) \cap Values = {}
           /\ FromStoresKeysReasons(log[r][i])
           /\ log[r][i].detail = ""
      /\ log[r] = shadowLog[r]

\* C5 amended: no event holds a secret value, and the run with other secret values
\* has emitted the same events; besides store names, keys, reasons and the scope
\* configuration, the event of a failed fetch carries the runner's error message.
C5_NoSecretValueLogged ==
    \A r \in Reqs :
      /\ \A i \in 1..Len(log[r]) :
           /\ EventStrings(log[r][i]) \cap Values = {}
           /\ FromStoresKeysReasons(log[r][i])
           /\ log[r][i].detail # "" =>
                /\ log[r][i].msg \in {"ERR_SECRET_GET", "ERR_SECRET_GET_BULK"}
                /\ log[r][i].detail = req[r].rErr
      /\ log[r] = shadowLog[r]

\* C5 witness: the backend returned a value for a key that was then denied and
\* logged, and the two runs hold different values for it.
C5_Witness ==
    \E r \in Reqs : \E k \in DOMAIN req[r].getResponse.m :
      /\ Done(r) /\ req[r].kind = BulkKind
      /\ <<k, FALSE>> \in req[r].decisions
      /\ req[r].getResponse.m[k] # req[r].shadowResponse.m[k]
      /\ \E i \in 1..Len(log[r]) : log[r][i].key = k

\* C6: a call whose backend failed k times and then succeeded has returned no
\* error, k is within the retry budget, and the backend was invoked k + 1 times.
C6_RetryThenSuccess ==
    \A r \in Reqs :
      Done(r) /\ req[r].runs >= 1 /\ req[r].rErr = "" =>
        /\ req[r].err = NoErr
        /\ req[r].fails <= MaxRetries
        /\ req[r].calls = req[r].fails + 1
        /\ req[r].kind = GetKind => req[r].response.present

\* C6 witness: a call has succeeded after using the whole retry budget.
C6_Witness ==
    \E r \in Reqs :
      /\ Done(r) /\ req[r].err = NoErr
      /\ req[r].fails = MaxRetries /\ req[r].calls = MaxRetries + 1

\* C7 as stated: a call one of whose backend calls exceeded the timeout has
\* returned an error, before that backend call would have completed.
C7_AnyTimeoutFails ==
    \A r \in Reqs :
      Done(r) /\ req[r].timeouts > 0 =>
        /\ req[r].err # NoErr
        /\ req[r].returnedAt < req[r].backendEnd

\* C7 amended: a call whose last backend call exceeded the timeout has returned a
\* fetch error, at most one timeout per attempt after its start and strictly before
\* that backend call would have completed.
C7_TimeoutReturnsEarly ==
    \A r \in Reqs :
      Done(r) /\ req[r].runs >= 1 /\ req[r].timedOut =>
        /\ req[r].err = IF req[r].kind = GetKind
                        THEN ErrSecretGet(req[r].key, req[r].storeName, TimeoutMsg)
                        ELSE ErrBulkSecretGet(req[r].storeName, TimeoutMsg)
        /\ req[r].returnedAt < req[r].backendEnd
        /\ req[r].returnedAt <= req[r].calls * Timeout

\* C7 witness: every attempt of a call has timed out and the call has returned.
C7_Witness ==
    \E r \in Reqs :
      /\ Done(r) /\ req[r].timedOut
      /\ req[r].timeouts = MaxRetries + 1
      /\ req[r].returnedAt < req[r].backendEnd

\* C8: the runner is run at most once per call, and a call whose runner returned an
\* error has failed with SecretFetchFailed(key, store, message), or with
\* BulkSecretFetchFailed(store, message), and has no response.
C8_TerminalErrorIsFinal ==
    \A r \in Reqs :
      /\ req[r].runs <= 1
      /\ req[r].pc \in {"filter", "done"} /\ req[r].rErr # "" =>
           /\ Done(r)
           /\ req[r].err = IF req[r].kind = GetKind
                           THEN ErrSecretGet(req[r].key, req[r].storeName, req[r].rErr)
                           ELSE ErrBulkSecretGet(req[r].storeName, req[r].rErr)
           /\ req[r].response = NilResponse

\* C8 witness: a bulk call has failed after the backend failed on every attempt.
C8_Witness ==
    \E r \in Reqs :
      /\ Done(r) /\ req[r].kind = BulkKind
      /\ req[r].rErr \in ErrMsgs
      /\ req[r].calls = MaxRetries + 1

\* The keys of the backend result that request r has denied.
DeniedKeys(r) == {k \in DOMAIN req[r].getResponse.m : <<k, FALSE>> \in req[r].decisions}

BulkSucceeded(r) == Done(r) /\ req[r].kind = BulkKind /\ req[r].runs >= 1 /\ req[r].err = NoErr

\* C9 as stated: the response is present with empty data when the backend returned
\* keys and all were denied, and absent when the backend returned no key.
C9_AbsentWhenNoKeys ==
    \A r \in Reqs :
      BulkSucceeded(r) =>
        LET keys == DOMAIN req[r].getResponse.m IN
          /\ keys # {} /\ DeniedKeys(r) = keys =>
               req[r].response.present /\ DOMAIN req[r].response.Data = {}
          /\ keys = {} => ~req[r].response.present

\* C9 amended: the response is absent exactly when the backend's data is nil; it is
\* present with empty data when every returned key was denied, and also when the
\* backend returned an empty map that is not nil.
C9_AbsentWhenNilData ==
    \A r \in Reqs :
      BulkSucceeded(r) =>
        LET keys == DOMAIN req[r].getResponse.m IN
          /\ req[r].response.present <=> ~req[r].getResponse.isNil
          /\ ~req[r].getResponse.isNil /\ DeniedKeys(r) = keys =>
               req[r].response.present /\ DOMAIN req[r].response.Data = {}

\* C9 witness: every key the backend returned was denied, and the response is present.
C9_Witness ==
    \E r \in Reqs :
      /\ BulkSucceeded(r)
      /\ DOMAIN req[r].getResponse.m = Keys
      /\ DeniedKeys(r) = Keys
      /\ req[r].response.present

\* The positions of the aggregate events of request r.
AggregateEvents(r) ==
    EventsOf(r, "Some secrets were denied access")
      \cup EventsOf(r, "Some secrets were denied access, no scoping configuration")

\* C10: an aggregate event exists only once every returned key has been decided; a
\* finished bulk call that denied a key has emitted exactly one, as its last event,
\* listing each denied key once with its reason; one that denied none has emitted none.
C10_OneAggregateEvent ==
    \A r \in Reqs :
      /\ AggregateEvents(r) # {} =>
           /\ Done(r) /\ req[r].kind = BulkKind
           /\ {d[1] : d \in req[r].decisions} = DOMAIN req[r].getResponse.m
      /\ BulkSucceeded(r) =>
           IF DeniedKeys(r) = {} THEN AggregateEvents(r) = {}
           ELSE /\ AggregateEvents(r) = {Len(log[r])}
                /\ \A i \in AggregateEvents(r) : \A c \in ScopeOf(r) :
                     LET pairs == log[r][i].reasons IN
                       /\ Len(pairs) = Cardinality(DeniedKeys(r))
                       /\ {pairs[j] : j \in 1..Len(pairs)} =
                            {<<k, IsSecretAllowedWithReason(c, k).reason>> : k \in DeniedKeys(r)}

\* C10 witness: a bulk call has denied two keys and emitted its aggregate event.
C10_Witness ==
    \E r \in Reqs :
      /\ BulkSucceeded(r)
      /\ Cardinality(DeniedKeys(r)) = 2
      /\ AggregateEvents(r) # {}

\* The errors a call returns before it has asked the backend.
EarlyErrorCodes ==
    {ErrSecretStoreNotConfigured.code, ErrSecretStoreNotFound("").code,
     ErrSecretPermissionDenied("", "").code}

\* C11: a GetSecret call has run the runner or invoked the backend only if its store
\* is registered and isSecretAllowed has allowed its key; a call that has returned
\* NoStoresConfigured, StoreNotFound or PermissionDenied has invoked neither.
C11_FetchOnlyAfterAllow ==
    \A r \in Reqs :
      req[r].kind = GetKind =>
        /\ req[r].runs > 0 \/ req[r].calls > 0 =>
             /\ req[r].storeName \in secretStores
             /\ req[r].decisions = {<<req[r].key, TRUE>>}
        /\ req[r].err.code \in EarlyErrorCodes =>
             req[r].runs = 0 /\ req[r].calls = 0

\* C11 witness: a GetSecret call on a registered store has ended in PermissionDenied.
C11_Witness ==
    \E r \in Reqs :
      /\ Done(r) /\ req[r].kind = GetKind
      /\ req[r].storeName \in secretStores
      /\ req[r].err = ErrSecretPermissionDenied(req[r].key, req[r].storeName)
      /\ req[r].calls = 0

\* The positions of the denial events of request r, per key or aggregate.
DenialEvents(r) ==
    EventsOf(r, "Secret access denied")
      \cup EventsOf(r, ErrSecretPermissionDenied("", "").code)
      \cup EventsOf(r, "Some secrets were denied access")
      \cup EventsOf(r, "Some secrets were denied access, no scoping configuration")

\* C12: a GetBulkSecret call decides access only after its runner has returned a
\* result, and only for keys of that result; a finished call on a registered store
\* has invoked the backend, whatever the scope configuration; a call that has ended
\* in BulkSecretFetchFailed has decided nothing and emitted no denial event.
C12_BulkFetchBeforeFilter ==
    \A r \in Reqs :
      req[r].kind = BulkKind =>
        /\ req[r].decisions # {} \/ DenialEvents(r) # {} =>
             /\ req[r].runs = 1 /\ req[r].calls >= 1 /\ req[r].rErr = ""
             /\ req[r].pc \in {"filter", "done"}
             /\ {d[1] : d \in req[r].decisions} \subseteq DOMAIN req[r].getResponse.m
        /\ Done(r) /\ req[r].storeName \in secretStores => req[r].calls >= 1
        /\ Done(r) /\ req[r].err.code = ErrBulkSecretGet("", "").code =>
             req[r].decisions = {} /\ DenialEvents(r) = {}

\* C12 witness: under a scope that denies every key, a bulk call has fetched two
\* keys from the backend and then denied both.
C12_Witness ==
    \E r \in Reqs : \E c \in ScopeOf(r) :
      /\ BulkSucceeded(r)
      /\ c.DefaultAccess = DenyAccess /\ c.AllowedSecrets = {}
      /\ req[r].calls >= 1
      /\ DOMAIN req[r].getResponse.m = Keys
      /\ DeniedKeys(r) = Keys

\* C13: a call records telemetry at most once; once its runner has returned and the
\* call has moved on, it has recorded it exactly once, for its operation, with the
\* success flag true exactly when the runner returned no error; a call that never
\* ran the runner has recorded none.
C13_TelemetryOnce ==
    \A r \in Reqs :
      /\ Len(telemetry[r]) <= 1
      /\ req[r].runs = 0 => telemetry[r] = <<>>
      /\ req[r].runs >= 1 /\ req[r].pc \in {"filter", "done"} =>
           /\ Len(telemetry[r]) = 1
           /\ telemetry[r][1].success <=> req[r].rErr = ""
           /\ telemetry[r][1].op = IF req[r].kind = GetKind THEN "Get" ELSE "BulkGet"
           /\ telemetry[r][1].store = req[r].storeName

\* C13 witness: a call whose runner failed has returned, with telemetry recorded.
C13_Witness ==
    \E r \in Reqs :
      /\ Done(r) /\ req[r].rErr # ""
      /\ Len(telemetry[r]) = 1
      /\ ~telemetry[r][1].success

\* C14: a bulk call on a store without scope configuration denies no key, its
\* response holds every key the backend returned, and the aggregate event of the
\* branch without configuration is never emitted.
C14_NoConfigurationNoDenial ==
    \A r \in Reqs :
      /\ EventsOf(r, "Some secrets were denied access, no scoping configuration") = {}
      /\ req[r].kind = BulkKind /\ ScopeOf(r) = {} =>
           /\ DeniedKeys(r) = {}
           /\ req[r].deniedSecrets = <<>>
           /\ \A d \in req[r].decisions : d[2]
           /\ BulkSucceeded(r) =>
                DOMAIN req[r].response.Data = DOMAIN req[r].getResponse.m

\* C14 witness: a bulk call on a store without configuration has returned two keys.
C14_Witness ==
    \E r \in Reqs :
      /\ BulkSucceeded(r)
      /\ ScopeOf(r) = {}
      /\ DOMAIN req[r].response.Data = Keys

\* What a call returns when it runs alone: the error and the response that follow
\* from its own arguments, the registry, the scope configuration and what the
\* backend did for it (the runner's error, or the data it returned).
AloneOutcome(q) ==
    LET v == secretsValidateRequest(q.storeName) IN
      IF v.err # NoErr THEN [err |-> v.err, response |-> NilResponse]
      ELSE IF q.kind = GetKind /\ ~isSecretAllowed(q.storeName, q.key).allowed
      THEN [err |-> ErrSecretPermissionDenied(q.key, q.storeName), response |-> NilResponse]
      ELSE IF q.rErr # ""
      THEN [err |-> IF q.kind = GetKind THEN ErrSecretGet(q.key, q.storeName, q.rErr)
                    ELSE ErrBulkSecretGet(q.storeName, q.rErr),
            response |-> NilResponse]
      ELSE IF q.kind = GetKind
      THEN [err |-> NoErr, response |-> Response(q.getResponse.m)]
      ELSE [err |-> NoErr,
            response |->
              IF q.getResponse.isNil THEN NilResponse
              ELSE Response([k \in {x \in DOMAIN q.getResponse.m :
                                      isSecretAllowed(q.storeName, x).allowed}
                               |-> [Secrets |-> q.getResponse.m[k]]])]

OutcomeAsAlone ==
    \A r \in Reqs :
      Done(r) => /\ req[r].err = AloneOutcome(req[r]).err
                 /\ req[r].response = AloneOutcome(req[r]).response

\* C15: with two calls interleaved in any order, every finished call has the error
\* and the response it has when run alone with the same arguments, registry, scope
\* configuration and backend behaviour, and no step changes the registry or a
\* scope configuration.
C15_ConcurrentCallsIndependent ==
    /\ []OutcomeAsAlone
    /\ [][/\ secretStores' = secretStores
          /\ secretsConfiguration' = secretsConfiguration]_vars

\* C15 witness: two GetSecret calls for the same store and key have both finished,
\* one with the secret and one with a fetch error, and their steps were interleaved.
C15_Witness ==
    /\ Done(1) /\ Done(2)
    /\ req[1].kind = GetKind /\ req[2].kind = GetKind
    /\ req[1].storeName = req[2].storeName /\ req[1].key = req[2].key
    /\ req[1].err = NoErr /\ req[1].response.present
    /\ req[2].err.code = ErrSecretGet("", "", "").code
    /\ req[2].returnedAt < req[1].returnedAt
    /\ req[1].getResponse # req[2].getResponse

====
